---- MODULE Spec2Model ----
(***************************************************************************)
(* Multi-circuit compilation (CircuitDef, ProgramCompiler) and the         *)
(* compiled artifact (Program, ProgramCircuit) of concrete-python.         *)
(*                                                                         *)
(*   Spec         CircuitDef direct calls and ProgramCompiler.compile,     *)
(*                one step per stage of the pipeline                       *)
(*   SpecProgram  Program construction and the operations of its           *)
(*                ProgramCircuits                                          *)
(*   SpecDecl     CircuitDef construction, on drawn declarations           *)
(*   SpecEval     CircuitDef._evaluate on drawn accumulated inputsets      *)
(*   SpecOrder    ProgramCompiler.compile on drawn inputset dicts          *)
(*   SpecRuntime  Program construction and the management of its runtime   *)
(*   SpecThreads  concurrent ProgramCompiler.compile calls                 *)
(*   SpecRound    the reference function round of the end-to-end fixture   *)
(*                generator of the compiler, on drawn inputs               *)
(***************************************************************************)
EXTENDS Integers, Sequences, FiniteSets, TLC

VARIABLES
    inputset,       \* CircuitDef.inputset, per circuit name
    graph,          \* CircuitDef.graph, per circuit name
    self_cfg,       \* ProgramCompiler.configuration (set in __init__)
    pc,             \* position of the running compile call ("idle": none)
    idx,            \* compile: index of the circuit evaluated next
    configuration,  \* compile: the local `configuration` (lines 438-441)
    exc,            \* compile: the exception in flight
    touched,        \* compile: some CircuitDef was modified since the call began
    result,         \* outcome of the last finished call or stage
    compiled,       \* compile has returned a Program, which holds the graphs
    trail,          \* compile: the stages the running call has performed
    thread,         \* position of every thread that calls compile
    program,        \* the Program under use: its runtime (Program.rt)
    held,           \* the encrypted Value the caller holds
    out,            \* outcome of the last operation on the Program
    obtained,       \* the ProgramCircuits the caller got from the Program
    signature,      \* CircuitDef(function, ...): the function's parameter names
    statuses,       \* CircuitDef(..., parameter_encryption_statuses)
    circuit_def,    \* what the construction of the CircuitDef gave
    rounding        \* an input of the fixture's round, and its output

compiler_vars ==
    <<inputset, graph, self_cfg, pc, idx, configuration, exc, touched, result,
      compiled, trail, thread>>
program_vars == <<program, held, out, obtained>>
decl_vars == <<signature, statuses, circuit_def>>
fixture_vars == <<rounding>>
vars == <<compiler_vars, program_vars, decl_vars, fixture_vars>>

----------------------------------------------------------------------------
(* Bounds of the model *)

\* cap on the length of an accumulated inputset
MaxAccum == 2

\* the largest clear value a ciphertext of the model carries
MaxPlain == 4

\* cap on the number of runs applied to one encrypted value
MaxRuns == 2

\* the number of threads that call compile on one ProgramCompiler
NumThreads == 3

\* the widest type the fixture of round is generated for
MaxBits == 8

\* the sample values of the evaluations lie within -MaxValue..MaxValue
MaxValue == 2

\* the widest integer type looked for
MaxWidth == 8

----------------------------------------------------------------------------
(* Values *)

Min(S) == CHOOSE x \in S : \A y \in S : x <= y
Max(S) == CHOOSE x \in S : \A y \in S : x >= y
Range(s) == {s[i] : i \in 1..Len(s)}

RECURSIVE Pow2(_)
Pow2(n) == IF n = 0 THEN 1 ELSE 2 * Pow2(n - 1)

\* a sample that is not a tuple, and a sample that is a tuple
Scalar(v) == [tup |-> FALSE, vals |-> <<v>>]
Tuple(vs) == [tup |-> TRUE, vals |-> vs]

SampleA == Scalar(1)
SampleB == Scalar(2)
SampleT == Tuple(<<1, 2>>)

\* the circuits of the program, in declaration (dict) order
Circuits == <<"inc", "add">>
Names == Range(Circuits)

\* len(self.parameter_encryption_statuses)
NumParams(name) == IF name = "inc" THEN 1 ELSE 2

\* the clear functions: inc(x) = x + 1, add(x, y) = x + y
Fn(name, args) == IF name = "inc" THEN args[1] + 1 ELSE args[1] + args[2]

\* the inputsets handed to compile for one circuit
NoInputset == [kind |-> "none", samples |-> <<>>]
MissingInputset == [kind |-> "missing", samples |-> <<>>]
Given(s) == [kind |-> "list", samples |-> s]

Inputsets ==
    { NoInputset, MissingInputset,
      Given(<<>>), Given(<<SampleA>>), Given(<<SampleB>>),
      Given(<<SampleT>>), Given(<<SampleA, SampleT>>) }

\* the positional argument lists of a direct call
ArgLists == { <<1>>, <<1, 2>> }

\* the external collaborator that raises during a step, if it is invoked
EvalFaults == {"none", "tune", "trace", "fuse", "bounds"}

----------------------------------------------------------------------------
(* Configuration *)

Cfg(c, s, e, d, t) ==
    [composable |-> c, fhe_simulation |-> s, fhe_execution |-> e,
     dump_artifacts_on_unexpected_failures |-> d, auto_adjust_rounders |-> t,
     auto_adjust_truncators |-> FALSE,
     use_insecure_key_cache |-> FALSE, enable_unsafe_features |-> FALSE,
     insecure_key_cache_location |-> FALSE]

NoFrameCfg == Cfg(FALSE, FALSE, FALSE, FALSE, FALSE)

\* the configurations a Program is constructed with
ProgramCfgs ==
    { [Cfg(TRUE, s, e, FALSE, FALSE) EXCEPT
          !.use_insecure_key_cache = u, !.enable_unsafe_features = f,
          !.insecure_key_cache_location = l] : s, e, u, f, l \in BOOLEAN }

\* Configuration(composable=True): of the fields the source does not fix, the
\* dump on failure and the rounders are taken enabled, so that the handler
\* exports and the tuners run
SelfCfgs == { Cfg(TRUE, FALSE, TRUE, TRUE, TRUE) }

\* the `configuration` argument of compile; NoCfg is None
NoCfg == [given |-> FALSE, cfg |-> Cfg(FALSE, FALSE, FALSE, FALSE, FALSE)]
SomeCfg(c) == [given |-> TRUE, cfg |-> c]

CfgArgs ==
    { NoCfg,
      SomeCfg(Cfg(TRUE, FALSE, TRUE, TRUE, FALSE)),
      SomeCfg(Cfg(TRUE, TRUE, TRUE, FALSE, TRUE)),
      SomeCfg(Cfg(FALSE, FALSE, TRUE, TRUE, FALSE)) }

\* the **kwargs of compile: the options to overwrite
NoKwargs == [f \in {} |-> FALSE]
KwargSets ==
    { NoKwargs, [composable |-> FALSE], [composable |-> TRUE] }

\* Configuration.fork(**kwargs)
Fork(cfg, kwargs) ==
    [f \in DOMAIN cfg |-> IF f \in DOMAIN kwargs THEN kwargs[f] ELSE cfg[f]]

----------------------------------------------------------------------------
(* The reference function round of end_to_end_round_gen.py *)

\* the operators of Python on integers: x << n, x >> n (the floor of
\* x / 2^n, for a negative x too) and x & y (on the two's complement digits,
\* y not negative)
ShiftLeft(x, n) == x * Pow2(n)
ShiftRight(x, n) == x \div Pow2(n)
RECURSIVE BitAnd(_, _)
BitAnd(x, y) ==
    IF y = 0 THEN 0 ELSE (x % 2) * (y % 2) + 2 * BitAnd(x \div 2, y \div 2)

\* a round that drops the low bits without the carry
RoundTruncating(val, p_start, p_end, signed) ==
    LET p_delta == p_start - p_end
        output == ShiftRight(val, p_delta)
    IN  IF signed /\ output >= ShiftLeft(1, p_end - 1) THEN -output ELSE output

\* round(val, p_start, p_end, signed=False), lines 9-18
Round(val, p_start, p_end, signed) ==
    LET p_delta == p_start - p_end
        carry_mask == ShiftLeft(1, p_delta - 1)
        carried == IF BitAnd(val, carry_mask) # 0
                   THEN val + ShiftLeft(carry_mask, 1) ELSE val
        output == ShiftRight(carried, p_delta)
    IN  IF signed /\ output >= ShiftLeft(1, p_end - 1) THEN -output ELSE output

\* --bitwidth, default=list(range(3,9)): from MinBits up to MaxBits
MinBits == 3

\* to_p in range(2, from_p)
MinToBits == 2

\* the values of an integer type of p bits
TypeValues(p, signed) ==
    IF signed THEN -Pow2(p - 1) .. Pow2(p - 1) - 1 ELSE 0 .. Pow2(p) - 1

\* np.random.randint(max_value), np.random.randint(min_value, max_value):
\* the upper end is excluded
Drawn(p, signed) ==
    IF signed THEN -Pow2(p - 1) .. Pow2(p - 1) - 2 ELSE 0 .. Pow2(p) - 2

NoRounding == [val |-> 0, p_start |-> 0, p_end |-> 0, signed |-> FALSE,
               done |-> FALSE, output |-> 0]

----------------------------------------------------------------------------
(* CircuitDef *)

NoGraph == [present |-> FALSE, fused |-> FALSE, bounds |-> <<>>,
            signed |-> FALSE, width |-> 0]

\* len(sample) once a sample that is not a tuple is wrapped (lines 169-170)
Arity(sample) == IF sample.tup THEN Len(sample.vals) ELSE 1

IsPrefix(s, t) == Len(s) <= Len(t) /\ SubSeq(t, 1, Len(s)) = s

\* self._is_direct is False from construction on
IsDirect(name) == FALSE

\* Tracer.trace(function, parameters): fails unless every parameter of the
\* function is described
TracerTrace(name, described, fault) ==
    IF fault = "trace" \/ described < NumParams(name) THEN "TracingError" ELSE "none"

\* fuse(graph, artifacts)
Fuse(fault) == IF fault = "fuse" THEN "FusionError" ELSE "none"

\* CircuitDef._trace(sample): the graph it leaves and the error it raises
Trace(name, g, sample, fault) ==
    IF NumParams(name) > 1 /\ ~sample.tup
    THEN [graph |-> g, err |-> "TypeError"]
    ELSE LET described == Min({Arity(sample), NumParams(name)})
             traced == TracerTrace(name, described, fault)
             unfused == [NoGraph EXCEPT !.present = TRUE]
         IN  IF traced # "none" THEN [graph |-> g, err |-> traced]
             ELSE IF Fuse(fault) # "none"
                  THEN [graph |-> unfused, err |-> Fuse(fault)]
                  ELSE [graph |-> [unfused EXCEPT !.fused = TRUE], err |-> "none"]

\* position (from 1) of the first sample whose arity is not n; 0 if none
FirstBad(samples, n) ==
    LET bad == {i \in 1..Len(samples) : Arity(samples[i]) # n}
    IN  IF bad = {} THEN 0 ELSE Min(bad)

\* a rollback that drops the malformed sample only
RollbackLast(list, previous_inputset_length) == SubSeq(list, 1, Len(list) - 1)

\* self.inputset = self.inputset[:previous_inputset_length]
Rollback(list, previous_inputset_length) == SubSeq(list, 1, previous_inputset_length)

\* an extension that replaces the accumulated samples by the supplied ones
ExtendReplacing(is, samples, n) ==
    LET bad == FirstBad(samples, n)
    IN  IF bad = 0
        THEN [inputset |-> samples, err |-> "none", index |-> -1]
        ELSE [inputset |-> is, err |-> "ValueError", index |-> bad - 1]

\* the loop of _evaluate over the supplied inputset (lines 164-188)
Extend(is, samples, n) ==
    LET bad == FirstBad(samples, n)
    IN  IF bad = 0
        THEN [inputset |-> is \o samples, err |-> "none", index |-> -1]
        ELSE [inputset |-> Rollback(is \o SubSeq(samples, 1, bad), Len(is)),
              err |-> "ValueError", index |-> bad - 1]

\* AutoRounder.adjust / AutoTruncator.adjust, run when enabled (lines 190-194)
Tune(cfg, fault) ==
    IF (cfg.auto_adjust_rounders \/ cfg.auto_adjust_truncators) /\ fault = "tune"
    THEN "TuningError" ELSE "none"

AllValues(is) == UNION {Range(is[i].vals) : i \in 1..Len(is)}

\* a measure over the sample appended last only
MeasureBoundsLast(is, n, fault) ==
    IF fault = "bounds" \/ is = <<>> \/ FirstBad(is, n) # 0
    THEN [err |-> "BoundsError", bounds |-> <<>>]
    ELSE [err |-> "none", bounds |-> <<Min(Range(is[Len(is)].vals)),
                                        Max(Range(is[Len(is)].vals))>>]

\* Graph.measure_bounds(inputset): evaluates the graph on every sample
MeasureBounds(is, n, fault) ==
    IF fault = "bounds" \/ is = <<>> \/ FirstBad(is, n) # 0
    THEN [err |-> "BoundsError", bounds |-> <<>>]
    ELSE [err |-> "none", bounds |-> <<Min(AllValues(is)), Max(AllValues(is))>>]

\* the integers of w bits, signed or not, hold every value of lo..hi
Fits(w, signed, lo, hi) ==
    IF signed THEN -Pow2(w - 1) <= lo /\ hi <= Pow2(w - 1) - 1
    ELSE 0 <= lo /\ hi <= Pow2(w) - 1

\* the least width from w on that holds lo..hi
RECURSIVE LeastWidth(_, _, _)
LeastWidth(w, lo, hi) ==
    IF w >= MaxWidth \/ Fits(w, lo < 0, lo, hi) THEN w ELSE LeastWidth(w + 1, lo, hi)

\* Graph.update_with_bounds(bounds): the node takes the smallest integer type
\* that represents its bounds
UpdateWithBounds(g, bounds) ==
    [g EXCEPT !.bounds = bounds, !.signed = bounds[1] < 0,
              !.width = LeastWidth(1, bounds[1], bounds[2])]

\* a measure whose new bounds are added to the bounds the graph has
MeasureAndUpdateMerging(g, is, n, fault) ==
    LET m == MeasureBounds(is, n, fault)
        hi == IF g.bounds = <<>> THEN m.bounds[2] ELSE g.bounds[2] + m.bounds[2]
    IN  IF m.err # "none" THEN [graph |-> g, err |-> m.err]
        ELSE [graph |-> UpdateWithBounds(g, <<m.bounds[1], hi>>), err |-> "none"]

\* a measure over the first sample only
MeasureAndUpdateFirst(g, is, n, fault) ==
    LET m == MeasureBounds(SubSeq(is, 1, 1), n, fault)
    IN  IF m.err # "none" THEN [graph |-> g, err |-> m.err]
        ELSE [graph |-> UpdateWithBounds(g, m.bounds), err |-> "none"]

\* bounds = self.graph.measure_bounds(self.inputset);
\* self.graph.update_with_bounds(bounds), lines 209-210
MeasureAndUpdate(g, is, n, fault) ==
    LET m == MeasureBounds(is, n, fault)
    IN  IF m.err # "none" THEN [graph |-> g, err |-> m.err]
        ELSE [graph |-> UpdateWithBounds(g, m.bounds), err |-> "none"]

\* the truncators adjusted before the rounders
TunerStepsSwapped(cfg, n) ==
    (IF cfg.auto_adjust_truncators THEN << <<"truncate", n>> >> ELSE <<>>)
    \o (IF cfg.auto_adjust_rounders THEN << <<"round", n>> >> ELSE <<>>)

\* lines 190-194: AutoRounder.adjust, then AutoTruncator.adjust, each when
\* enabled, on the n accumulated samples
TunerSteps(cfg, n) ==
    (IF cfg.auto_adjust_rounders THEN << <<"round", n>> >> ELSE <<>>)
    \o (IF cfg.auto_adjust_truncators THEN << <<"truncate", n>> >> ELSE <<>>)

\* a first sample whose StopIteration is not turned into a RuntimeError
FirstSampleUnwrapped(is) ==
    IF is = <<>> THEN [err |-> "StopIteration", sample |-> SampleA]
    ELSE [err |-> "none", sample |-> is[1]]

\* a first sample taken from the end of the accumulated inputset
FirstSampleLatest(is) ==
    IF is = <<>> THEN [err |-> "RuntimeError", sample |-> SampleA]
    ELSE [err |-> "none", sample |-> is[Len(is)]]

\* first_sample = next(iter(self.inputset)), lines 197-204
FirstSample(is) ==
    IF is = <<>> THEN [err |-> "RuntimeError", sample |-> SampleA]
    ELSE [err |-> "none", sample |-> is[1]]

EvalResult(is, g, err, index) ==
    [inputset |-> is, graph |-> g, err |-> err, index |-> index, log |-> <<>>,
     traced |-> <<>>]

\* the samples self._trace was called with: none when there is a graph
Tracing(r, g, sample) == [r EXCEPT !.traced = IF g.present THEN <<>> ELSE <<sample>>]

\* the steps an evaluation went through
Logged(r, log) == [r EXCEPT !.log = log]

\* CircuitDef._evaluate(action, inputset, configuration, artifacts)
Evaluate(name, is, g, supplied, cfg, fault) ==
    IF IsDirect(name)
    THEN LET traced == TracerTrace(name, NumParams(name), fault)
             unfused == [NoGraph EXCEPT !.present = TRUE]
         IN  IF traced # "none" THEN EvalResult(is, g, traced, -1)
             ELSE IF Fuse(fault) # "none" THEN EvalResult(is, unfused, Fuse(fault), -1)
             ELSE Logged(EvalResult(is, [unfused EXCEPT !.fused = TRUE], "none", -1),
                         << <<"trace", 0>>, <<"fuse", 0>>, <<"final", 0>> >>)
    ELSE
    LET ext == IF supplied.kind = "list"
               THEN Extend(is, supplied.samples, NumParams(name))
               ELSE [inputset |-> is, err |-> "none", index |-> -1]
        is1 == ext.inputset
        n == Len(is1)
        extended == IF supplied.kind = "list"
                    THEN << <<"extend", Len(supplied.samples)>> >> ELSE <<>>
        tuned == extended \o TunerSteps(cfg, n)
    IN  IF ext.err # "none" THEN Logged(EvalResult(is1, g, ext.err, ext.index), extended)
        ELSE IF Tune(cfg, fault) # "none"
        THEN Logged(EvalResult(is1, g, Tune(cfg, fault), -1), tuned)
        ELSE IF ~g.present /\ FirstSample(is1).err # "none"
        THEN Logged(EvalResult(is1, g, FirstSample(is1).err, -1), tuned)
        ELSE
        LET t == IF g.present THEN [graph |-> g, err |-> "none"]
                 ELSE Trace(name, g, FirstSample(is1).sample, fault)
            traced == tuned \o (IF g.present THEN <<>>
                                 ELSE IF t.graph.present
                                      THEN << <<"trace", 1>>, <<"fuse", 1>> >>
                                      ELSE << <<"trace", 1>> >>)
            first == FirstSample(is1).sample
        IN  IF t.err # "none"
            THEN Tracing(Logged(EvalResult(is1, t.graph, t.err, -1), traced), g, first)
            ELSE
            LET m == MeasureAndUpdate(t.graph, is1, NumParams(name), fault)
            IN  IF m.err # "none"
                THEN Tracing(Logged(EvalResult(is1, m.graph, m.err, -1),
                                    Append(traced, <<"measure", n>>)), g, first)
                ELSE Tracing(Logged(EvalResult(is1, m.graph, "none", -1),
                                    traced \o << <<"measure", n>>, <<"update", n>>,
                                                 <<"final", n>> >>), g, first)

\* Graph.__call__(*args): the clear evaluation of the function
GraphCall(name, args) ==
    IF Len(args) # NumParams(name)
    THEN [err |-> "TypeError", value |-> 0]
    ELSE [err |-> "none", value |-> Fn(name, args)]

\* a sample that is always the tuple of the arguments
SampleOfTuple(args) == Tuple(args)

\* sample = args[0] if len(args) == 1 else args
SampleOf(args) == IF Len(args) = 1 THEN Scalar(args[1]) ELSE Tuple(args)

----------------------------------------------------------------------------
(* Program.__init__ *)

ProgramResult(err, mode, servers, clients, cache) ==
    [err |-> err, mode |-> mode, servers |-> servers, clients |-> clients,
     key_cache |-> cache]

\* Server.create(...)
ServerCreate(fault) == IF fault THEN "ServerError" ELSE "none"

\* a check that asks for exactly one of the two modes
ModeEnabledExactlyOne(given, cfg) ==
    given /\ (cfg.fhe_simulation # cfg.fhe_execution)

\* assert configuration and (configuration.fhe_simulation or
\* configuration.fhe_execution), line 510
ModeEnabled(given, cfg) ==
    given /\ (cfg.fhe_simulation \/ cfg.fhe_execution)

\* a key cache directory taken without asking for enable_unsafe_features
KeyCacheDirectoryUngated(cfg) ==
    IF ~cfg.use_insecure_key_cache THEN [err |-> "none", dir |-> FALSE]
    ELSE IF ~cfg.insecure_key_cache_location THEN [err |-> "AssertionError", dir |-> FALSE]
    ELSE [err |-> "none", dir |-> TRUE]

\* keyset_cache_directory, lines 530-534: None unless use_insecure_key_cache,
\* and then both assert_that calls come before the location is taken
KeyCacheDirectory(cfg) ==
    IF ~cfg.use_insecure_key_cache THEN [err |-> "none", dir |-> FALSE]
    ELSE IF ~cfg.enable_unsafe_features THEN [err |-> "AssertionError", dir |-> FALSE]
    ELSE IF ~cfg.insecure_key_cache_location THEN [err |-> "AssertionError", dir |-> FALSE]
    ELSE [err |-> "none", dir |-> TRUE]

\* Program.__init__(graphs, mlir, compilation_context, configuration):
\* the runtime it builds (mode), the calls of Server.create and Client it
\* makes, and the error it raises
ProgramInit(given, cfg, fault) ==
    IF ~ModeEnabled(given, cfg)
    THEN ProgramResult("AssertionError", "none", 0, 0, FALSE)
    ELSE IF cfg.fhe_simulation
    THEN IF ServerCreate(fault) # "none"
         THEN ProgramResult(ServerCreate(fault), "none", 1, 0, FALSE)
         ELSE ProgramResult("none", "simulation", 1, 0, FALSE)
    ELSE IF ServerCreate(fault) # "none"
         THEN ProgramResult(ServerCreate(fault), "none", 1, 0, FALSE)
         ELSE IF KeyCacheDirectory(cfg).err # "none"
              THEN ProgramResult(KeyCacheDirectory(cfg).err, "none", 1, 0, FALSE)
         ELSE ProgramResult("none", "execution", 1, 1, KeyCacheDirectory(cfg).dir)

----------------------------------------------------------------------------
(* The runtime of a Program: Client and Server *)

\* the circuits of the Program under use, all of one parameter
ProgramCircuits == {"inc", "dec", "square"}

\* their clear functions
RunFn(name, x) ==
    IF name = "inc" THEN x + 1 ELSE IF name = "dec" THEN x - 1 ELSE x * x

\* the bounds measured on the parameter of every circuit, from the inputset
InLo == 1
InHi == 2

Plain == 0..MaxPlain

InBounds(x) == InLo <= x /\ x <= InHi

NoProgram == [built |-> FALSE, mode |-> "none", key_cache |-> FALSE,
              id |-> 0, keys |-> "none", cleaned |-> FALSE]
NoValue == [present |-> FALSE, val |-> 0, clear |-> 0, inbounds |-> TRUE,
            runs |-> 0, by |-> {}]
NoOutcome == [op |-> "none", name |-> "", err |-> "none", value |-> 0,
              events |-> <<>>, arg |-> 0, given |-> FALSE, cfg |-> NoFrameCfg,
              fault |-> FALSE, servers |-> 0, clients |-> 0, keys |-> "none"]

NoCt == [val |-> 0]

\* Client.encrypt(*args, circuit_name): a ciphertext of the argument
ClientEncrypt(x, name) == [val |-> x]

\* Server.run(*args, evaluation_keys, circuit_name): the circuit's function,
\* on a ciphertext whose clear value is within the measured bounds; any
\* value otherwise
ServerRun(ct, name, noise) ==
    IF InBounds(ct.val) THEN [val |-> RunFn(name, ct.val)] ELSE [val |-> noise]

\* Client.decrypt(*results, circuit_name)
ClientDecrypt(ct, name) == ct.val

\* isinstance(self.rt, ExecutionRt) / isinstance(self.rt, SimulationRt)
IsExecutionRt(rt) == rt.mode = "execution"
IsSimulationRt(rt) == rt.mode = "simulation"

----------------------------------------------------------------------------
(* ProgramCircuit *)

Event(target, op, name) == <<target, op, name>>

Done(err, value, events) == [err |-> err, value |-> value, events |-> events]

\* Program.__getattr__(item): ProgramCircuit(item, self.rt, self.graphs[item])
ProgramCircuit(name) == [name |-> name, rt |-> program]

\* the attribute names asked of a Program
Items == ProgramCircuits \cup {"missing"}

\* Program.__getattr__(item), lines 658-662
ProgramGetAttr(item) ==
    IF item \notin ProgramCircuits
    THEN Done("AttributeError", [name |-> item, rt |-> NoProgram], <<>>)
    ELSE Done("none", ProgramCircuit(item), <<>>)

\* Program.circuits(), lines 652-656
CircuitsOf == { ProgramGetAttr(name).value : name \in ProgramCircuits }

\* a ProgramCircuit as its holder keeps it: the name, and the runtime object
\* that self.rt refers to
Ref(circuit) == [name |-> circuit.name, rt |-> circuit.rt.id]

\* Client.keygen(force, seed, encryption_seed): keys are generated when
\* there are none, or when force is set
ClientKeygen(keys, force) == IF keys = "none" \/ force THEN "generated" ELSE keys

\* Program.keys, the getter
Keys(p) == IF IsExecutionRt(p) THEN p.keys ELSE "none"

\* a setter that installs the keys in a runtime built anew
KeysSetOnNewRuntime(p, new_keys) ==
    IF IsExecutionRt(p) THEN [p EXCEPT !.keys = new_keys, !.id = @ + 1] ELSE p

\* Program.keys, the setter
KeysSet(p, new_keys) ==
    IF IsExecutionRt(p) THEN [p EXCEPT !.keys = new_keys] ELSE p

\* Program.keygen(force, seed, encryption_seed)
Keygen(p, force) ==
    IF IsExecutionRt(p) THEN [p EXCEPT !.keys = ClientKeygen(@, force)] ELSE p

\* Program.cleanup(): self.rt.server.cleanup()
Cleanup(p) == [p EXCEPT !.cleaned = TRUE]

\* ProgramCircuit.encrypt(*args)
Encrypt(circuit, x) ==
    IF ~IsExecutionRt(circuit.rt) THEN Done("AssertionError", NoCt, <<>>)
    ELSE Done("none", ClientEncrypt(x, circuit.name),
              <<Event("client", "encrypt", circuit.name)>>)

\* a run under the name of another circuit
RunAsInc(circuit, ct, noise) ==
    IF ~IsExecutionRt(circuit.rt) THEN Done("AssertionError", NoCt, <<>>)
    ELSE Done("none", ServerRun(ct, "inc", noise),
              <<Event("server", "run", circuit.name)>>)

\* ProgramCircuit.run(*args)
Run(circuit, ct, noise) ==
    IF ~IsExecutionRt(circuit.rt) THEN Done("AssertionError", NoCt, <<>>)
    ELSE Done("none", ServerRun(ct, circuit.name, noise),
              <<Event("server", "run", circuit.name)>>)

\* ProgramCircuit.decrypt(*results)
Decrypt(circuit, ct) ==
    IF ~IsExecutionRt(circuit.rt) THEN Done("AssertionError", 0, <<>>)
    ELSE Done("none", ClientDecrypt(ct, circuit.name),
              <<Event("client", "decrypt", circuit.name)>>)

\* a simulation that does not check the runtime it is given
SimulateUnchecked(circuit, x, noise) ==
    Done("none", ServerRun([val |-> x], circuit.name, noise).val,
         <<Event("server", "run", circuit.name)>>)

\* ProgramCircuit.simulate(*args): export, run on the server, decrypt
Simulate(circuit, x, noise) ==
    IF ~IsSimulationRt(circuit.rt) THEN Done("AssertionError", 0, <<>>)
    ELSE Done("none", ServerRun([val |-> x], circuit.name, noise).val,
              <<Event("server", "run", circuit.name)>>)

\* an encrypt_run_decrypt that decrypts what it encrypted
EncryptDecrypt(circuit, x, noise) ==
    LET e == Encrypt(circuit, x)
    IN  IF e.err # "none" THEN Done(e.err, 0, e.events)
        ELSE LET d == Decrypt(circuit, e.value)
             IN  Done(d.err, d.value, e.events \o d.events)

\* ProgramCircuit.encrypt_run_decrypt(*args):
\* self.decrypt(self.run(self.encrypt(*args)))
EncryptRunDecrypt(circuit, x, noise) ==
    LET e == Encrypt(circuit, x)
    IN  IF e.err # "none" THEN Done(e.err, 0, e.events)
        ELSE LET r == Run(circuit, e.value, noise)
             IN  IF r.err # "none" THEN Done(r.err, 0, e.events \o r.events)
                 ELSE LET d == Decrypt(circuit, r.value)
                      IN  Done(d.err, d.value, e.events \o r.events \o d.events)

----------------------------------------------------------------------------
(* CircuitDef.__init__ *)

\* the parameter names of the declared functions, and the keys of the
\* encryption-status mappings
ParamNames == {"x", "y"}
StatusKeys == {"x", "y", "z"}

\* the status values a declaration gives
StatusValues == {"encrypted", "CLEAR", "secret"}

\* inspect.signature(function).parameters: distinct names, in order
Signatures ==
    {<<>>} \cup { <<a>> : a \in ParamNames }
           \cup ({ <<a, b>> : a \in ParamNames, b \in ParamNames }
                    \ { <<a, a>> : a \in ParamNames })

\* the dicts from keys to status values
StatusMappings == UNION { [ks -> StatusValues] : ks \in SUBSET StatusKeys }

\* str.lower()
StrLower(s) == IF s = "CLEAR" THEN "clear" ELSE s

\* EncryptionStatus(value): the enumeration has the members "clear" and
\* "encrypted"; any other value is a ValueError
EncryptionStatus(s) ==
    IF s \in {"clear", "encrypted"} THEN [err |-> "none", value |-> s]
    ELSE [err |-> "ValueError", value |-> ""]

\* a check that finds no parameter missing
MissingArgsNone(params, mapping) == <<>>

\* missing_args: the parameters that have no entry, in signature order
MissingArgs(params, mapping) ==
    SelectSeq(params, LAMBDA a : a \notin DOMAIN mapping)

\* additional_args: the entries that name no parameter
AdditionalArgs(params, mapping) ==
    { k \in DOMAIN mapping : k \notin Range(params) }

NoCircuitDef ==
    [done |-> FALSE, constructed |-> FALSE, err |-> "none", stage |-> "",
     missing |-> <<>>, additional |-> {}, inputset |-> <<>>, graph |-> NoGraph,
     parameter_encryption_statuses |-> NoKwargs, is_direct |-> FALSE]

\* CircuitDef.__init__(function, parameter_encryption_statuses)
CircuitDefInit(params, mapping) ==
    LET missing_args == MissingArgs(params, mapping)
        additional_args == AdditionalArgs(params, mapping)
        failed(stage) == [NoCircuitDef EXCEPT !.done = TRUE, !.err = "ValueError",
                             !.stage = stage]
    IN  IF Len(missing_args) # 0
        THEN [failed("missing") EXCEPT !.missing = missing_args]
        ELSE IF additional_args # {}
        THEN [failed("additional") EXCEPT !.additional = additional_args]
        ELSE IF \E k \in DOMAIN mapping : EncryptionStatus(StrLower(mapping[k])).err # "none"
        THEN failed("status")
        ELSE [NoCircuitDef EXCEPT !.done = TRUE, !.constructed = TRUE,
                 !.parameter_encryption_statuses =
                     [k \in DOMAIN mapping |-> EncryptionStatus(StrLower(mapping[k])).value],
                 !.is_direct = IsDirect("")]

----------------------------------------------------------------------------
(* The calls: CircuitDef.__call__ and ProgramCompiler.compile *)

\* what the last call or stage did
Outcome(op, name, err, index, value, original, dumped, prog) ==
    [op |-> op, name |-> name, err |-> err, index |-> index, value |-> value,
     original |-> original, dumped |-> dumped, program |-> prog,
     supplied |-> NoInputset, requested |-> FALSE,
     cfgArg |-> NoCfg, kwargs |-> NoKwargs,
     args |-> <<>>, trail |-> <<>>, graphs |-> <<>>, log |-> <<>>, traced |-> <<>>]

\* the local variables of compile vanish when the call ends
EndFrame ==
    /\ idx' = 0
    /\ configuration' = NoFrameCfg
    /\ exc' = "none"
    /\ touched' = FALSE
    /\ trail' = <<>>

\* the threads that call compile
Threads == 1..NumThreads

Init ==
    /\ inputset = [n \in Names |-> <<>>]
    /\ graph = [n \in Names |-> NoGraph]
    /\ self_cfg \in SelfCfgs
    /\ pc = "idle"
    /\ idx = 0
    /\ configuration = NoFrameCfg
    /\ exc = "none"
    /\ touched = FALSE
    /\ result = Outcome("init", "", "none", -1, 0, "none", FALSE, "none")
    /\ compiled = FALSE
    /\ trail = <<>>
    /\ thread = [t \in Threads |-> "idle"]
    /\ program = NoProgram
    /\ held = NoValue
    /\ out = NoOutcome
    /\ obtained = {}
    /\ signature = <<>>
    /\ statuses = NoKwargs
    /\ circuit_def = NoCircuitDef
    /\ rounding = NoRounding

\* CircuitDef.__call__(*args, **kwargs)
Call(name, args, kwargs, fault) ==
    /\ pc = "idle"
    /\ Len(inputset[name]) < MaxAccum
    /\ LET sample == SampleOf(args)
           t == IF graph[name].present THEN [graph |-> graph[name], err |-> "none"]
                ELSE Trace(name, graph[name], sample, fault)
           called == GraphCall(name, args)
           tracing == IF graph[name].present THEN <<>> ELSE <<sample>>
       IN  IF kwargs
           THEN /\ result' = [Outcome("call", name, "RuntimeError", -1, 0, "none", FALSE, "none")
                                 EXCEPT !.args = args]
                /\ UNCHANGED <<inputset, graph>>
           ELSE IF t.err # "none"
           THEN /\ graph' = [graph EXCEPT ![name] = t.graph]
                /\ result' = [Outcome("call", name, t.err, -1, 0, "none", FALSE, "none")
                                 EXCEPT !.args = args, !.traced = tracing]
                /\ UNCHANGED inputset
           ELSE /\ graph' = [graph EXCEPT ![name] = t.graph]
                /\ inputset' = [inputset EXCEPT ![name] = Append(@, sample)]
                /\ result' = [Outcome("call", name, called.err, -1, called.value,
                                       "none", FALSE, "none")
                                 EXCEPT !.args = args, !.traced = tracing]
    /\ UNCHANGED <<self_cfg, pc, idx, configuration, exc, touched, compiled, trail, thread,
                   program_vars, decl_vars, fixture_vars>>

\* self.default_configuration: never assigned, so __getattr__ answers
\* (lines 505-509)
GetAttr(item) == IF item \in Names THEN "none" ELSE "AttributeError"

\* a fork whose result is dropped
EffectiveConfigurationUnforked(cfg, kwargs) == cfg

\* compile, lines 439-441: the copy of the configuration, forked when options
\* are given to overwrite
EffectiveConfiguration(cfg, kwargs) ==
    IF DOMAIN kwargs # {} THEN Fork(cfg, kwargs) ELSE cfg

\* compile, lines 438-451: the configuration of the call, the composable check
CompileBegin(cfgArg, kwargs) ==
    /\ pc = "idle"
    /\ LET looked == IF cfgArg.given THEN "none" ELSE GetAttr("default_configuration")
           forked == EffectiveConfiguration(cfgArg.cfg, kwargs)
           outcome(stage, err) ==
               [Outcome("compile", stage, err, -1, 0, "none", FALSE, "none")
                   EXCEPT !.cfgArg = cfgArg, !.kwargs = kwargs]
       IN  IF looked # "none"
           THEN /\ result' = outcome("configuration", looked)
                /\ UNCHANGED <<pc, idx, configuration, exc, touched, trail>>
           ELSE IF ~forked.composable
           THEN /\ result' = outcome("composable", "RuntimeError")
                /\ UNCHANGED <<pc, idx, configuration, exc, touched, trail>>
           ELSE /\ pc' = "evaluate"
                /\ idx' = 1
                /\ configuration' = forked
                /\ exc' = "none"
                /\ touched' = FALSE
                /\ trail' = <<>>
                /\ result' = [outcome("", "none") EXCEPT !.op = "begin"]
    /\ UNCHANGED <<inputset, graph, self_cfg, compiled, thread, program_vars, decl_vars, fixture_vars>>

\* an entry of the dict of another circuit
InputsetOfFirst(inputsets, name) == inputsets[Circuits[1]]

\* inputset = inputsets[name], line 456
InputsetOf(inputsets, name) == inputsets[name]

\* compile, lines 455-460: one turn of the loop over the circuits
EvaluateCircuit(inputsets, fault) ==
    /\ pc = "evaluate"
    /\ LET name == Circuits[idx]
           supplied == InputsetOf(inputsets, name)
           r == Evaluate(name, inputset[name], graph[name], supplied, self_cfg, fault)
       IN  /\ Len(r.inputset) <= MaxAccum
           /\ IF supplied.kind = "missing"
              THEN /\ exc' = "KeyError"
                   /\ pc' = "except"
                   /\ result' = [Outcome("evaluate", name, "KeyError", -1, 0,
                                          "none", FALSE, "none") EXCEPT !.supplied = supplied]
                   /\ UNCHANGED <<inputset, graph, idx, touched, trail>>
              ELSE /\ inputset' = [inputset EXCEPT ![name] = r.inputset]
                   /\ trail' = Append(trail, <<"evaluate", name>>)
                   /\ graph' = [graph EXCEPT ![name] = r.graph]
                   /\ touched' = (touched \/ r.inputset # inputset[name]
                                          \/ r.graph # graph[name])
                   /\ result' = [Outcome("evaluate", name, r.err, r.index, 0,
                                          "none", FALSE, "none")
                                    EXCEPT !.supplied = supplied, !.log = r.log,
                                           !.traced = r.traced]
                   /\ IF r.err # "none"
                      THEN exc' = r.err /\ pc' = "except" /\ UNCHANGED idx
                      ELSE /\ UNCHANGED exc
                           /\ IF idx < Len(Circuits)
                              THEN idx' = idx + 1 /\ UNCHANGED pc
                              ELSE pc' = "lower" /\ UNCHANGED idx
    /\ UNCHANGED <<self_cfg, configuration, compiled, thread, program_vars, decl_vars, fixture_vars>>

\* GraphConverter().convert_many(graphs, self.configuration, mlir_context)
ConvertMany(fault) == IF fault THEN "LoweringError" ELSE "none"

\* graphs = {name: circuit.graph for (name, circuit) in self.circuits.items()}
GraphsOf(gs) == [n \in Range(Circuits) |-> gs[n]]

\* compile, lines 462-474: lowering of all the graphs to one module
Lower(fault) ==
    /\ pc = "lower"
    /\ result' = [Outcome("lower", "", ConvertMany(fault), -1, 0, "none", FALSE, "none")
                     EXCEPT !.graphs = GraphsOf(graph)]
    /\ trail' = Append(trail, <<"lower", "">>)
    /\ IF ConvertMany(fault) # "none"
       THEN exc' = ConvertMany(fault) /\ pc' = "except"
       ELSE pc' = "build" /\ UNCHANGED exc
    /\ UNCHANGED <<inputset, graph, self_cfg, idx, configuration, touched, compiled, thread,
                   program_vars, decl_vars, fixture_vars>>

\* compile, lines 476-483 and 501: Program(...) and the return
BuildProgram(fault) ==
    /\ pc = "build"
    /\ LET p == ProgramInit(TRUE, configuration, fault)
       IN  IF p.err # "none"
           THEN /\ exc' = p.err
                /\ pc' = "except"
                /\ result' = Outcome("build", "", p.err, -1, 0, "none", FALSE, "none")
                /\ trail' = Append(trail, <<"build", "">>)
                /\ UNCHANGED <<idx, configuration, touched, compiled>>
           ELSE /\ pc' = "idle"
                /\ result' = [Outcome("compile", "", "none", -1, 0, "none", FALSE, p.mode)
                                 EXCEPT !.trail = Append(trail, <<"build", "">>),
                                        !.graphs = GraphsOf(graph)]
                /\ compiled' = TRUE
                /\ EndFrame
    /\ UNCHANGED <<inputset, graph, self_cfg, thread, program_vars, decl_vars, fixture_vars>>

\* program_artifacts.export()
Export(fault) == IF fault THEN "ExportError" ELSE "none"

\* compile, lines 485-499: the handler of a failure of the pipeline
Except(fault) ==
    /\ pc = "except"
    /\ LET dump == self_cfg.dump_artifacts_on_unexpected_failures
           raised == IF dump /\ Export(fault) # "none" THEN Export(fault) ELSE exc
       IN  result' = [Outcome("compile", result.name, raised, result.index, 0,
                              exc, dump, "none")
                      EXCEPT !.requested =
                          configuration.dump_artifacts_on_unexpected_failures,
                             !.trail = trail]
    /\ pc' = "idle"
    /\ EndFrame
    /\ UNCHANGED <<inputset, graph, self_cfg, compiled, thread, program_vars, decl_vars, fixture_vars>>

Next ==
    \/ \E name \in Names, args \in ArgLists, kwargs \in BOOLEAN,
          fault \in {"none", "trace", "fuse"} : Call(name, args, kwargs, fault)
    \/ \E cfgArg \in CfgArgs, kwargs \in KwargSets : CompileBegin(cfgArg, kwargs)
    \/ \E supplied \in Inputsets, fault \in EvalFaults :
          EvaluateCircuit([n \in Names |-> supplied], fault)
    \/ \E fault \in BOOLEAN : Lower(fault)
    \/ \E fault \in BOOLEAN : BuildProgram(fault)
    \/ \E fault \in BOOLEAN : Except(fault)

Spec == Init /\ [][Next]_vars

----------------------------------------------------------------------------
(* One compile call after another, with a dict of inputsets *)

\* the inputsets registered under a name
OrderInputsets ==
    { NoInputset, MissingInputset, Given(<<SampleA>>), Given(<<SampleT>>) }

\* the `inputsets` argument of compile
InputsetDicts == [Names -> OrderInputsets]

\* the `configuration` argument of compile: one that builds a Program, one
\* with no mode, and one that is not composable
OrderCfgArgs ==
    { SomeCfg(Cfg(TRUE, FALSE, TRUE, TRUE, FALSE)),
      SomeCfg(Cfg(TRUE, FALSE, FALSE, FALSE, FALSE)),
      SomeCfg(Cfg(FALSE, FALSE, TRUE, TRUE, FALSE)) }

NextOrder ==
    \/ \E cfgArg \in OrderCfgArgs : CompileBegin(cfgArg, NoKwargs)
    \/ \E inputsets \in InputsetDicts, fault \in EvalFaults :
          EvaluateCircuit(inputsets, fault)
    \/ \E fault \in BOOLEAN : Lower(fault)
    \/ \E fault \in BOOLEAN : BuildProgram(fault)
    \/ \E fault \in BOOLEAN : Except(fault)

SpecOrder == Init /\ [][NextOrder]_vars

----------------------------------------------------------------------------
(* Threads that call compile on one ProgramCompiler *)

\* The position of a thread is the statement of compile it executes next:
\*   "idle"      outside compile
\*   "evaluate"  the loop over the circuits, lines 455-460
\*   "context"   self.compilation_context.mlir_context(), line 463
\*   "lower"     convert_many(graphs, self.configuration, mlir_context),
\*               line 465, with the context got at line 463
\*   "build"     Program(graphs, mlir_module, self.compilation_context,
\*               configuration), line 478, which calls Server.create
\*   "except"    the handler, lines 485-499
\* compile takes no lock and ProgramCompiler.__init__ (lines 403-406) makes
\* none, so no step of a thread waits for another thread.

Step(t, from, to) ==
    /\ thread[t] = from
    /\ thread' = [thread EXCEPT ![t] = to]
    /\ UNCHANGED <<inputset, graph, self_cfg, pc, idx, configuration, exc, touched,
                   result, compiled, trail, program_vars, decl_vars, fixture_vars>>

\* lines 438-451: the call begins, or raises before the try block
ThreadBegin(t, ok) == Step(t, "idle", IF ok THEN "evaluate" ELSE "idle")

\* lines 455-460
ThreadEvaluate(t, ok) == Step(t, "evaluate", IF ok THEN "context" ELSE "except")

\* line 463
ThreadContext(t) == Step(t, "context", "lower")

\* lines 464-474
ThreadLower(t, ok) == Step(t, "lower", IF ok THEN "build" ELSE "except")

\* lines 476-483 and 501
ThreadBuild(t, ok) == Step(t, "build", IF ok THEN "idle" ELSE "except")

\* lines 485-499
ThreadExcept(t) == Step(t, "except", "idle")

NextThreads ==
    \E t \in Threads :
        \/ \E ok \in BOOLEAN : ThreadBegin(t, ok)
        \/ \E ok \in BOOLEAN : ThreadEvaluate(t, ok)
        \/ ThreadContext(t)
        \/ \E ok \in BOOLEAN : ThreadLower(t, ok)
        \/ \E ok \in BOOLEAN : ThreadBuild(t, ok)
        \/ ThreadExcept(t)

SpecThreads == Init /\ [][NextThreads]_vars

----------------------------------------------------------------------------
(* The fixture of round: one test of generate *)

\* the tests generate can print, and those on the last value of the input
\* type, which it cannot draw
RoundInputs ==
    { [NoRounding EXCEPT !.val = v, !.p_start = p[1], !.p_end = p[2], !.signed = sg] :
        p \in { q \in (MinBits..MaxBits) \X (MinToBits..MaxBits) : q[2] < q[1] },
        sg \in BOOLEAN, v \in -Pow2(MaxBits - 1) .. Pow2(MaxBits) - 1 }

InitRound ==
    /\ inputset = [n \in Names |-> <<>>]
    /\ graph = [n \in Names |-> NoGraph]
    /\ self_cfg = Cfg(TRUE, FALSE, TRUE, TRUE, FALSE)
    /\ pc = "idle"
    /\ idx = 0
    /\ configuration = NoFrameCfg
    /\ exc = "none"
    /\ touched = FALSE
    /\ result = Outcome("init", "", "none", -1, 0, "none", FALSE, "none")
    /\ compiled = FALSE
    /\ trail = <<>>
    /\ thread = [t \in Threads |-> "idle"]
    /\ program = NoProgram
    /\ held = NoValue
    /\ out = NoOutcome
    /\ obtained = {}
    /\ signature = <<>>
    /\ statuses = NoKwargs
    /\ circuit_def = NoCircuitDef
    /\ rounding \in { r \in RoundInputs : r.val \in TypeValues(r.p_start, r.signed) }

\* print(f"    - scalar: {round(val, from_p, to_p)}"), and with signed=True
RoundOnce ==
    /\ ~rounding.done
    /\ rounding' = [rounding EXCEPT
                        !.done = TRUE,
                        !.output = Round(rounding.val, rounding.p_start, rounding.p_end,
                                         rounding.signed)]
    /\ UNCHANGED <<compiler_vars, program_vars, decl_vars>>

NextRound == RoundOnce

SpecRound == InitRound /\ [][NextRound]_vars

----------------------------------------------------------------------------
(* The operations on a Program *)

InitProgram ==
    /\ inputset = [n \in Names |-> <<>>]
    /\ graph = [n \in Names |-> NoGraph]
    /\ self_cfg = Cfg(TRUE, FALSE, TRUE, TRUE, FALSE)
    /\ pc = "idle"
    /\ idx = 0
    /\ configuration = NoFrameCfg
    /\ exc = "none"
    /\ touched = FALSE
    /\ result = Outcome("init", "", "none", -1, 0, "none", FALSE, "none")
    /\ compiled = FALSE
    /\ trail = <<>>
    /\ thread = [t \in Threads |-> "idle"]
    /\ program = NoProgram
    /\ held = NoValue
    /\ out = NoOutcome
    /\ obtained = {}
    /\ signature = <<>>
    /\ statuses = NoKwargs
    /\ circuit_def = NoCircuitDef
    /\ rounding = NoRounding

\* Program(graphs, mlir, compilation_context, configuration)
Construct(given, cfg, fault) ==
    /\ LET p == ProgramInit(given, cfg, fault)
       IN  /\ program' = IF p.err = "none"
                          THEN [NoProgram EXCEPT !.built = TRUE, !.mode = p.mode,
                                    !.key_cache = p.key_cache, !.id = 1]
                          ELSE NoProgram
           /\ out' = [NoOutcome EXCEPT !.op = "construct", !.err = p.err,
                          !.given = given, !.cfg = cfg, !.fault = fault,
                          !.servers = p.servers, !.clients = p.clients]
    /\ held' = NoValue
    /\ obtained' = {}
    /\ UNCHANGED <<compiler_vars, decl_vars, fixture_vars>>

\* program.<name>.encrypt(x)
EncryptOp(name, x) ==
    /\ program.built
    /\ LET r == Encrypt(ProgramCircuit(name), x)
       IN  /\ out' = [NoOutcome EXCEPT !.op = "encrypt", !.name = name, !.err = r.err,
                          !.events = r.events, !.arg = x]
           /\ held' = IF r.err = "none"
                       THEN [present |-> TRUE, val |-> r.value.val, clear |-> x,
                             inbounds |-> TRUE, runs |-> 0, by |-> {}]
                       ELSE held
    /\ UNCHANGED <<compiler_vars, decl_vars, fixture_vars, program, obtained>>

\* program.<name>.run(value), on the value the caller holds
RunOp(name, noise) ==
    /\ program.built
    /\ held.present \/ ~IsExecutionRt(program)
    /\ held.runs < MaxRuns
    /\ RunFn(name, held.clear) \in Plain
    /\ LET r == Run(ProgramCircuit(name), [val |-> held.val], noise)
       IN  /\ out' = [NoOutcome EXCEPT !.op = "run", !.name = name, !.err = r.err,
                          !.events = r.events]
           /\ held' = IF r.err = "none"
                       THEN [present |-> TRUE, val |-> r.value.val,
                             clear |-> RunFn(name, held.clear),
                             inbounds |-> held.inbounds /\ InBounds(held.val),
                             runs |-> held.runs + 1, by |-> held.by \cup {name}]
                       ELSE held
    /\ UNCHANGED <<compiler_vars, decl_vars, fixture_vars, program, obtained>>

\* program.<name>.decrypt(value), on the value the caller holds
DecryptOp(name) ==
    /\ program.built
    /\ held.present \/ ~IsExecutionRt(program)
    /\ LET r == Decrypt(ProgramCircuit(name), [val |-> held.val])
       IN  out' = [NoOutcome EXCEPT !.op = "decrypt", !.name = name, !.err = r.err,
                      !.value = r.value, !.events = r.events]
    /\ UNCHANGED <<compiler_vars, decl_vars, fixture_vars, program, held, obtained>>

\* program.<name>.simulate(x)
SimulateOp(name, x, noise) ==
    /\ program.built
    /\ LET r == Simulate(ProgramCircuit(name), x, noise)
       IN  out' = [NoOutcome EXCEPT !.op = "simulate", !.name = name, !.err = r.err,
                      !.value = r.value, !.events = r.events, !.arg = x]
    /\ UNCHANGED <<compiler_vars, decl_vars, fixture_vars, program, held, obtained>>

\* program.<name>.encrypt_run_decrypt(x)
EncryptRunDecryptOp(name, x, noise) ==
    /\ program.built
    /\ LET r == EncryptRunDecrypt(ProgramCircuit(name), x, noise)
       IN  out' = [NoOutcome EXCEPT !.op = "encrypt_run_decrypt", !.name = name,
                      !.err = r.err, !.value = r.value, !.events = r.events, !.arg = x]
    /\ UNCHANGED <<compiler_vars, decl_vars, fixture_vars, program, held, obtained>>

\* what the server may yield on the input x: the value is used only when x
\* is outside the measured bounds
Noise(x) == IF InBounds(x) THEN {0} ELSE Plain

NextProgram ==
    \/ \E given \in BOOLEAN, cfg \in ProgramCfgs, fault \in BOOLEAN :
          Construct(given, cfg, fault)
    \/ \E name \in ProgramCircuits, x \in Plain : EncryptOp(name, x)
    \/ \E name \in ProgramCircuits, noise \in Noise(held.val) : RunOp(name, noise)
    \/ \E name \in ProgramCircuits : DecryptOp(name)
    \/ \E name \in ProgramCircuits, x \in Plain : \E noise \in Noise(x) :
          SimulateOp(name, x, noise)
    \/ \E name \in ProgramCircuits, x \in Plain : \E noise \in Noise(x) :
          EncryptRunDecryptOp(name, x, noise)

SpecProgram == InitProgram /\ [][NextProgram]_vars

----------------------------------------------------------------------------
(* The keys, the cleanup, the circuits and the statistics of a Program *)

\* program.keygen(force)
KeygenOp(force) ==
    /\ program.built
    /\ program' = Keygen(program, force)
    /\ out' = [NoOutcome EXCEPT !.op = "keygen", !.fault = force]
    /\ UNCHANGED <<compiler_vars, decl_vars, fixture_vars, held, obtained>>

\* program.keys
KeysGetOp ==
    /\ program.built
    /\ out' = [NoOutcome EXCEPT !.op = "keys", !.keys = Keys(program)]
    /\ UNCHANGED <<compiler_vars, decl_vars, fixture_vars, program, held, obtained>>

\* program.keys = new_keys
KeysSetOp(new_keys) ==
    /\ program.built
    /\ program' = KeysSet(program, new_keys)
    /\ out' = [NoOutcome EXCEPT !.op = "keys=", !.keys = new_keys]
    /\ UNCHANGED <<compiler_vars, decl_vars, fixture_vars, held, obtained>>

\* program.cleanup()
CleanupOp ==
    /\ program.built
    /\ program' = Cleanup(program)
    /\ out' = [NoOutcome EXCEPT !.op = "cleanup"]
    /\ UNCHANGED <<compiler_vars, decl_vars, fixture_vars, held, obtained>>

\* program.circuits()
CircuitsOp ==
    /\ program.built
    /\ obtained' = obtained \cup { Ref(c) : c \in CircuitsOf }
    /\ out' = [NoOutcome EXCEPT !.op = "circuits"]
    /\ UNCHANGED <<compiler_vars, decl_vars, fixture_vars, program, held>>

\* program.<item>
GetAttrOp(item) ==
    /\ program.built
    /\ LET r == ProgramGetAttr(item)
       IN  /\ obtained' = IF r.err = "none" THEN obtained \cup {Ref(r.value)} ELSE obtained
           /\ out' = [NoOutcome EXCEPT !.op = "getattr", !.name = item, !.err = r.err]
    /\ UNCHANGED <<compiler_vars, decl_vars, fixture_vars, program, held>>

\* program.size_of_secret_keys, program.p_error, program.complexity, ...:
\* a read of self.rt.server
StatisticsOp ==
    /\ program.built
    /\ out' = [NoOutcome EXCEPT !.op = "statistics"]
    /\ UNCHANGED <<compiler_vars, decl_vars, fixture_vars, program, held, obtained>>

\* the keys a caller sets: keys made elsewhere, or None
NewKeys == {"loaded", "none"}

NextRuntime ==
    \/ \E given \in BOOLEAN, cfg \in ProgramCfgs, fault \in BOOLEAN :
          Construct(given, cfg, fault)
    \/ \E force \in BOOLEAN : KeygenOp(force)
    \/ KeysGetOp
    \/ \E new_keys \in NewKeys : KeysSetOp(new_keys)
    \/ CleanupOp
    \/ CircuitsOp
    \/ \E item \in Items : GetAttrOp(item)
    \/ StatisticsOp

SpecRuntime == InitProgram /\ [][NextRuntime]_vars

----------------------------------------------------------------------------
(* The declaration of a circuit *)

InitDecl ==
    /\ inputset = [n \in Names |-> <<>>]
    /\ graph = [n \in Names |-> NoGraph]
    /\ self_cfg = Cfg(TRUE, FALSE, TRUE, TRUE, FALSE)
    /\ pc = "idle"
    /\ idx = 0
    /\ configuration = NoFrameCfg
    /\ exc = "none"
    /\ touched = FALSE
    /\ result = Outcome("init", "", "none", -1, 0, "none", FALSE, "none")
    /\ compiled = FALSE
    /\ trail = <<>>
    /\ thread = [t \in Threads |-> "idle"]
    /\ program = NoProgram
    /\ held = NoValue
    /\ out = NoOutcome
    /\ obtained = {}
    /\ signature \in Signatures
    /\ statuses \in StatusMappings
    /\ circuit_def = NoCircuitDef
    /\ rounding = NoRounding

\* CircuitDef(function, parameter_encryption_statuses)
Declare ==
    /\ ~circuit_def.done
    /\ circuit_def' = CircuitDefInit(signature, statuses)
    /\ UNCHANGED <<compiler_vars, program_vars, signature, statuses, fixture_vars>>

NextDecl == Declare

SpecDecl == InitDecl /\ [][NextDecl]_vars

----------------------------------------------------------------------------
(* The evaluations of one CircuitDef *)

EvalValues == {-MaxValue, 0, 1, MaxValue}

\* a sample of the circuit on the value v
SampleFor(name, v) == IF NumParams(name) = 1 THEN Scalar(v) ELSE Tuple(<<v, 0>>)

\* the inputsets an evaluation is given
EvalInputsets(name) ==
    { NoInputset, Given(<<>>) }
    \cup { Given(<<SampleFor(name, v)>>) : v \in EvalValues }

\* the configurations an evaluation is given: the auto-tuners on or off
EvalCfgs ==
    { [Cfg(TRUE, FALSE, TRUE, FALSE, r) EXCEPT !.auto_adjust_truncators = t] :
          r, t \in BOOLEAN }

InitEval ==
    /\ inputset = [n \in Names |-> <<>>]
    /\ graph = [n \in Names |-> NoGraph]
    /\ self_cfg = Cfg(TRUE, FALSE, TRUE, TRUE, FALSE)
    /\ pc = "idle"
    /\ idx = 0
    /\ configuration = NoFrameCfg
    /\ exc = "none"
    /\ touched = FALSE
    /\ result = Outcome("init", "", "none", -1, 0, "none", FALSE, "none")
    /\ compiled = FALSE
    /\ trail = <<>>
    /\ thread = [t \in Threads |-> "idle"]
    /\ program = NoProgram
    /\ held = NoValue
    /\ out = NoOutcome
    /\ obtained = {}
    /\ signature = <<>>
    /\ statuses = NoKwargs
    /\ circuit_def = NoCircuitDef
    /\ rounding = NoRounding

\* circuit._evaluate("Compiling", inputset, configuration, artifacts)
EvaluateOnce(name, supplied, cfg, fault) ==
    /\ LET r == Evaluate(name, inputset[name], graph[name], supplied, cfg, fault)
       IN  /\ Len(r.inputset) <= MaxAccum
           /\ inputset' = [inputset EXCEPT ![name] = r.inputset]
           /\ graph' = [graph EXCEPT ![name] = r.graph]
           /\ result' = [Outcome("evaluate", name, r.err, r.index, 0, "none", FALSE, "none")
                            EXCEPT !.supplied = supplied, !.cfgArg = SomeCfg(cfg),
                                   !.log = r.log, !.traced = r.traced]
    /\ UNCHANGED <<self_cfg, pc, idx, configuration, exc, touched, compiled, trail, thread,
                   program_vars, decl_vars, fixture_vars>>

\* the evaluations of the first circuit
NextEval ==
    \E supplied \in EvalInputsets(Circuits[1]), cfg \in EvalCfgs,
       fault \in {"none", "tune", "bounds"} :
        EvaluateOnce(Circuits[1], supplied, cfg, fault)

SpecEval == InitEval /\ [][NextEval]_vars

----------------------------------------------------------------------------
(* Claims on CircuitDef._evaluate and ProgramCompiler.compile *)

\* the circuit the running compile call evaluates next
Current == Circuits[idx]

\* C1: an evaluation whose supplied inputset holds a sample of the wrong
\* arity raises ValueError with the 0-based position of the first such sample,
\* and leaves the accumulated inputset exactly as it was before the call.
C1_MalformedSampleRollsBack ==
    [][( /\ pc = "evaluate"
         /\ result'.op = "evaluate"
         /\ result'.supplied.kind = "list"
         /\ \E i \in 1..Len(result'.supplied.samples) :
                Arity(result'.supplied.samples[i]) # NumParams(Current) )
       => /\ result'.err = "ValueError"
          /\ exc' = "ValueError"
          /\ pc' = "except"
          /\ result'.index \in 0..(Len(result'.supplied.samples) - 1)
          /\ Arity(result'.supplied.samples[result'.index + 1]) # NumParams(Current)
          /\ \A j \in 1..result'.index :
                Arity(result'.supplied.samples[j]) = NumParams(Current)
          /\ inputset' = inputset
          /\ Len(inputset'[Current]) = Len(inputset[Current])
      ]_vars

\* C1 witness: a malformed sample that followed a well-formed one was rejected
\* for a circuit that had accumulated samples already.
C1_Witness ==
    /\ pc = "except"
    /\ result.op = "evaluate"
    /\ result.err = "ValueError"
    /\ result.index >= 1
    /\ inputset[result.name] # <<>>

\* C2: a compile call whose configuration, with the keyword overrides applied,
\* has composable disabled raises RuntimeError at once: no CircuitDef changes,
\* no stage of the pipeline starts, nothing is dumped, no Program is built.
C2_ComposableRequired ==
    [][( /\ pc = "idle"
         /\ result'.op \in {"compile", "begin"}
         /\ result'.cfgArg.given
         /\ ~Fork(result'.cfgArg.cfg, result'.kwargs).composable )
       => /\ result'.op = "compile"
          /\ result'.err = "RuntimeError"
          /\ pc' = "idle"
          /\ inputset' = inputset
          /\ graph' = graph
          /\ ~result'.dumped
          /\ result'.program = "none"
      ]_vars

\* C2 witness: the composable check rejected a call on circuits that had
\* accumulated samples.
C2_Witness ==
    /\ pc = "idle"
    /\ result.op = "compile"
    /\ result.name = "composable"
    /\ result.err = "RuntimeError"
    /\ result.cfgArg.cfg.composable
    /\ \E n \in Names : inputset[n] # <<>> /\ graph[n].present

\* C5, as claimed: an evaluation given an inputset with zero samples raises
\* the RuntimeError, whatever the state of the CircuitDef.
C5_EmptyInputsetAlwaysFails ==
    (result.op = "evaluate" /\ result.supplied = Given(<<>>)) =>
        result.err = "RuntimeError"

\* C5, amended: an evaluation given an inputset with zero samples, of a
\* circuit with no accumulated sample and no graph, raises the RuntimeError
\* (unless an auto-tuner raised first) and goes to the failure handler with
\* the CircuitDef unchanged: no bounds are measured, nothing is lowered, no
\* Program is built.
C5_EmptyInputsetFailsWhenNothingAccumulated ==
    [][( /\ pc = "evaluate"
         /\ result'.op = "evaluate"
         /\ result'.supplied = Given(<<>>)
         /\ inputset[Current] = <<>>
         /\ ~graph[Current].present
         /\ result'.err # "TuningError" )
       => /\ result'.err = "RuntimeError"
          /\ exc' = "RuntimeError"
          /\ pc' = "except"
          /\ inputset' = inputset
          /\ graph' = graph
          /\ graph'[Current].bounds = <<>>
      ]_vars

\* C5 witness: the second circuit was given an inputset with zero samples,
\* had accumulated nothing, and its evaluation raised the RuntimeError.
C5_Witness ==
    /\ pc = "except"
    /\ result.op = "evaluate"
    /\ result.supplied = Given(<<>>)
    /\ result.err = "RuntimeError"
    /\ result.name = "add"
    /\ inputset["add"] = <<>>
    /\ ~graph["add"].present

\* C9, as claimed: when a compile call fails, every CircuitDef is as it was
\* before the call.
C9_FailedCompileRetainsNothing ==
    pc = "except" => ~touched

\* C9, amended: a failing compile call returns no Program, but what its
\* evaluations did stays: each evaluation changes only its own CircuitDef, only
\* by appending samples and by building or re-measuring the graph (or not at
\* all when it raises on a malformed sample); lowering, Program construction
\* and the failure handler change no CircuitDef and undo nothing.
C9_FailedCompileRetainsEvaluations ==
    [][pc # "idle" =>
          /\ \A n \in Names :
                /\ IsPrefix(inputset[n], inputset'[n])
                /\ graph[n].present => graph'[n].present
                /\ (pc # "evaluate" \/ n # Current) =>
                      (inputset'[n] = inputset[n] /\ graph'[n] = graph[n])
          /\ (pc = "evaluate" /\ result'.err = "ValueError") => inputset' = inputset
          /\ (pc = "except" /\ pc' = "idle") =>
                (result'.err # "none" /\ result'.program = "none")
      ]_vars

\* C9 witness: the call failed after the first circuit was evaluated
\* successfully and modified.
C9_Witness ==
    /\ pc = "except"
    /\ touched
    /\ idx = 2
    /\ graph["inc"].bounds # <<>>

\* C10, as claimed: when a stage of the pipeline raises, the artifacts are
\* exported exactly when the call's configuration enables
\* dump_artifacts_on_unexpected_failures, and the call raises the original
\* failure and returns no Program.
C10_OriginalFailurePropagates ==
    (result.op = "compile" /\ result.original # "none") =>
        /\ result.dumped = result.requested
        /\ result.err = result.original
        /\ result.program = "none"


----------------------------------------------------------------------------
(* Claims on Program and ProgramCircuit, under SpecProgram *)

\* C3: on a Program in execution mode simulate fails and reaches no server
\* run; on a Program in simulation mode encrypt, run, decrypt and
\* encrypt_run_decrypt fail and reach neither the client nor the server; no
\* operation yields a value of the other mode.
C3_WrongModeFails ==
    /\ (out.op = "simulate" /\ IsExecutionRt(program)) =>
           /\ out.err = "AssertionError"
           /\ out.events = <<>>
           /\ out.value = 0
    /\ (out.op \in {"encrypt", "run", "decrypt", "encrypt_run_decrypt"}
            /\ IsSimulationRt(program)) =>
           /\ out.err = "AssertionError"
           /\ out.events = <<>>
           /\ out.value = 0
           /\ ~held.present

C3_Witness ==
    /\ out.op = "simulate"
    /\ IsExecutionRt(program)
    /\ out.err = "AssertionError"

C6_AnySequenceDecrypts ==
    (out.op = "decrypt" /\ out.err = "none" /\ held.present) =>
        out.value = held.clear

\* C6: in an execution-mode Program run accepts the value held, whichever
\* circuit produced it; when the input of every run was within the measured
\* bounds, decrypting yields the circuits' clear functions applied in order to
\* the original input.
C6_InBoundsSequenceDecrypts ==
    /\ (out.op = "run" /\ IsExecutionRt(program)) =>
           /\ out.err = "none"
           /\ out.events = <<Event("server", "run", out.name)>>
           /\ out.name \in held.by
    /\ (out.op = "decrypt" /\ out.err = "none" /\ held.present /\ held.inbounds) =>
           out.value = held.clear

C6_Witness ==
    /\ out.op = "decrypt"
    /\ out.err = "none"
    /\ held.inbounds
    /\ held.runs >= 2
    /\ Cardinality(held.by) >= 2
    /\ out.value = held.clear

\* C7: on an execution-mode Program and an argument within the measured
\* bounds, encrypt_run_decrypt performs client encrypt, server run and client
\* decrypt once each, in that order, under the circuit's own name, and returns
\* what decrypt(run(encrypt(x))) returns step by step: the clear function of
\* the argument.
C7_EncryptRunDecryptComposes ==
    (out.op = "encrypt_run_decrypt" /\ IsExecutionRt(program) /\ InBounds(out.arg)) =>
        LET c == ProgramCircuit(out.name)
            stepwise == Decrypt(c, Run(c, Encrypt(c, out.arg).value, 0).value)
        IN  /\ out.err = "none"
            /\ out.events = << Event("client", "encrypt", out.name),
                               Event("server", "run", out.name),
                               Event("client", "decrypt", out.name) >>
            /\ out.value = stepwise.value
            /\ out.value = RunFn(out.name, out.arg)

C7_Witness ==
    /\ out.op = "encrypt_run_decrypt"
    /\ IsExecutionRt(program)
    /\ out.name = "square"
    /\ out.arg = 2
    /\ out.value = 4

----------------------------------------------------------------------------
(* Claims on CircuitDef.__init__, under SpecDecl *)

\* every status of the mapping names a member of EncryptionStatus
ValidStatuses ==
    \A k \in DOMAIN statuses : StrLower(statuses[k]) \in {"clear", "encrypted"}

\* C8 as stated: construction succeeds if and only if the keys of the
\* encryption-status mapping are the parameter names of the function.
C8_ConstructedIffKeysMatch ==
    circuit_def.done =>
        (circuit_def.constructed <=> DOMAIN statuses = Range(signature))

\* C8: construction succeeds if and only if the keys of the mapping are the
\* parameter names of the function and every status is "clear" or "encrypted"
\* up to case; otherwise ValueError is raised, for the missing parameters when
\* some are missing (extra entries or not), and nothing is constructed; a
\* constructed CircuitDef has an empty inputset and no graph.
C8_DeclarationChecked ==
    circuit_def.done =>
        /\ circuit_def.constructed <=>
               (DOMAIN statuses = Range(signature) /\ ValidStatuses)
        /\ ~circuit_def.constructed =>
               /\ circuit_def.err = "ValueError"
               /\ circuit_def.parameter_encryption_statuses = NoKwargs
        /\ (Range(signature) \ DOMAIN statuses # {}) =>
               /\ circuit_def.stage = "missing"
               /\ Range(circuit_def.missing) = Range(signature) \ DOMAIN statuses
        /\ (Range(signature) \ DOMAIN statuses = {} /\ DOMAIN statuses \ Range(signature) # {}) =>
               /\ circuit_def.stage = "additional"
               /\ circuit_def.additional = DOMAIN statuses \ Range(signature)
        /\ circuit_def.constructed =>
               /\ circuit_def.err = "none"
               /\ DOMAIN circuit_def.parameter_encryption_statuses = Range(signature)
        /\ circuit_def.inputset = <<>>
        /\ ~circuit_def.graph.present

C8_Witness ==
    /\ circuit_def.done
    /\ signature # <<>>
    /\ DOMAIN statuses = Range(signature)
    /\ ~ValidStatuses
    /\ circuit_def.err = "ValueError"
    /\ circuit_def.stage = "status"

----------------------------------------------------------------------------
(* Claims on the compiled graphs and on direct calls, under Spec *)

\* Program.graphs once compile has returned a Program: self.graphs = graphs
\* keeps the Graph objects of the CircuitDefs, it does not copy them
ProgramGraphs == IF compiled THEN GraphsOf(graph) ELSE <<>>

\* C12: once compile has returned a Program, no later direct call and no
\* later compile call changes a graph the Program holds.
C12_ProgramGraphsReadOnly ==
    [][compiled => ProgramGraphs' = ProgramGraphs]_vars

\* C14: every sample of every accumulated inputset has as many values as
\* the circuit has parameters, whatever direct calls and evaluations were
\* made.
C14_AccumulatedSamplesWellFormed ==
    \A n \in Names : \A i \in 1..Len(inputset[n]) :
        Arity(inputset[n][i]) = NumParams(n)

\* C16: a successful direct call returns the function's clear result on its
\* arguments and appends one sample at the end of the circuit's accumulated
\* inputset, the argument itself when there is one argument and the tuple of
\* the arguments otherwise; the earlier samples and the other inputsets stay.
C16_CallAppendsOneSample ==
    [][(result'.op = "call" /\ result'.err = "none") =>
        LET name == result'.name
            args == result'.args
        IN  /\ result'.value = Fn(name, args)
            /\ Len(inputset'[name]) = Len(inputset[name]) + 1
            /\ SubSeq(inputset'[name], 1, Len(inputset[name])) = inputset[name]
            /\ inputset'[name][Len(inputset'[name])] =
                   (IF Len(args) = 1 THEN [tup |-> FALSE, vals |-> <<args[1]>>]
                    ELSE [tup |-> TRUE, vals |-> args])
            /\ \A m \in Names \ {name} : inputset'[m] = inputset[m]
      ]_vars

C16_Witness ==
    /\ result.op = "call"
    /\ result.err = "none"
    /\ result.name = "add"
    /\ result.args = <<1, 2>>
    /\ result.value = 3
    /\ Len(inputset["add"]) = 2
    /\ inputset["add"][2] = [tup |-> TRUE, vals |-> <<1, 2>>]

\* C21: a CircuitDef is traced only while it has no graph, and a graph once
\* present stays: a direct call or an evaluation calls _trace at most once,
\* never when there is a graph, a graph appears only by such a trace, and
\* the trace of an evaluation takes the first sample of the accumulated
\* inputset, the earliest one retained, whatever inputset the call supplies.
C21_TracedOnlyWithoutGraph ==
    [][(result'.op \in {"call", "evaluate"}) =>
        LET name == result'.name
            traced == result'.traced
        IN  /\ Len(traced) <= 1
            /\ graph[name].present => (traced = <<>> /\ graph'[name].present)
            /\ (~graph[name].present /\ graph'[name].present) => traced # <<>>
            /\ (traced # <<>> /\ result'.op = "evaluate") =>
                  /\ inputset'[name] # <<>>
                  /\ traced[1] = inputset'[name][1]
                  /\ inputset[name] # <<>> => traced[1] = inputset[name][1]
            /\ \A m \in Names \ {name} : graph'[m] = graph[m]
      ]_vars

\* an evaluation that traces although the inputset it is given starts with
\* another sample than the accumulated one
C21_Witness ==
    /\ result.op = "evaluate"
    /\ result.err = "none"
    /\ result.name = "inc"
    /\ result.supplied = Given(<<SampleB>>)
    /\ result.traced = <<SampleA>>
    /\ inputset["inc"] = <<SampleA, SampleB>>
    /\ graph["inc"].present

\* C22: when compile lowers the graphs, the bounds of every circuit's graph
\* are those of the whole inputset the circuit has accumulated by then, the
\* samples of earlier direct calls and of earlier compile calls included.
C22_LoweredBoundsCoverInputset ==
    pc = "lower" =>
        \A n \in Names :
            /\ inputset[n] # <<>>
            /\ graph[n].bounds = <<Min(AllValues(inputset[n])), Max(AllValues(inputset[n]))>>

\* a lowering after a direct call inc(1) and the inputset [2] for inc
C22_Witness ==
    /\ pc = "lower"
    /\ inputset["inc"] = <<SampleA, SampleB>>
    /\ graph["inc"].bounds = <<1, 2>>
    /\ graph["add"].bounds = <<1, 2>>

\* every step of the log that runs a tuner
TunerRuns(log) == { i \in 1..Len(log) : log[i][1] \in {"round", "truncate"} }

\* C23: the configuration in effect for a compile call, the one supplied
\* with the keyword overrides applied, decides whether the tuners run in the
\* evaluations of that call and whether the artifacts are exported when the
\* call fails.
C23_EffectiveConfigurationGoverns ==
    /\ (pc = "evaluate" /\ result.op = "evaluate" /\ result.err = "none") =>
          (TunerRuns(result.log) # {} <=>
              (configuration.auto_adjust_rounders \/ configuration.auto_adjust_truncators))
    /\ (result.op = "compile" /\ result.err # "none" /\ result.original # "none") =>
          (result.dumped <=> result.requested)

\* C24: compile called without a configuration and without overrides takes
\* the default configuration of the ProgramCompiler, passes the composable
\* check and goes on to evaluate the circuits.
C24_DefaultConfigurationUsed ==
    (/\ result.op \in {"begin", "compile"}
     /\ result.name = "configuration"
     /\ ~result.cfgArg.given) => result.err = "none"

\* C25: a graph that a CircuitDef has is fused; a trace that fails, in the
\* tracing or in the fusing, leaves the CircuitDef without a graph.
C25_PresentGraphIsFused ==
    \A n \in Names : graph[n].present => graph[n].fused

----------------------------------------------------------------------------
(* Claims on the key cache of a Program, under SpecProgram *)

\* C17, as stated: a construction that asks for use_insecure_key_cache
\* without enable_unsafe_features fails, in the simulation mode as in the
\* execution mode.
C17_UngatedKeyCacheFails ==
    (/\ out.op = "construct"
     /\ out.cfg.use_insecure_key_cache
     /\ ~out.cfg.enable_unsafe_features) => out.err # "none"

\* C17, amended: in the execution mode a construction that asks for
\* use_insecure_key_cache without enable_unsafe_features fails and builds no
\* Client; in the simulation mode the key cache fields are not read, and the
\* construction succeeds when the Server is created, with no Client; the
\* Client is given a key cache directory exactly when the construction is in
\* the execution mode, succeeds, and use_insecure_key_cache,
\* enable_unsafe_features and a cache location are all set.
C17_KeyCacheGatedInExecution ==
    out.op = "construct" =>
        /\ (/\ ~out.cfg.fhe_simulation
            /\ out.cfg.use_insecure_key_cache
            /\ ~out.cfg.enable_unsafe_features)
              => (out.err # "none" /\ out.clients = 0 /\ ~program.built)
        /\ (out.given /\ out.cfg.fhe_simulation /\ ~out.fault)
              => (out.err = "none" /\ out.clients = 0 /\ program.mode = "simulation")
        /\ program.key_cache <=>
              (/\ out.err = "none"
               /\ out.clients = 1
               /\ ~out.cfg.fhe_simulation
               /\ out.cfg.use_insecure_key_cache
               /\ out.cfg.enable_unsafe_features
               /\ out.cfg.insecure_key_cache_location)

C17_Witness ==
    /\ out.op = "construct"
    /\ out.given
    /\ out.cfg.fhe_simulation
    /\ out.cfg.use_insecure_key_cache
    /\ ~out.cfg.enable_unsafe_features
    /\ out.err = "none"
    /\ program.built
    /\ ~program.key_cache

----------------------------------------------------------------------------
(* Claims on the runtime of a Program, under SpecRuntime *)

\* C13: once a Program is constructed, its keygen, its keys getter and
\* setter, its cleanup, circuits(), the attribute access and the statistics
\* leave it with the one runtime object it was constructed with, in the mode
\* chosen at construction (execution or simulation), and every
\* ProgramCircuit got from the Program, then or earlier, refers to that
\* runtime object.
C13_OneRuntimeFixedMode ==
    [][(program.built /\ out'.op # "construct") =>
          /\ program'.built
          /\ program'.id = program.id
          /\ program'.id # NoProgram.id
          /\ program'.mode = program.mode
          /\ program'.mode \in {"execution", "simulation"}
          /\ \A c \in obtained' : c.rt = program'.id
      ]_vars

C13_Witness ==
    /\ program.built
    /\ program.mode = "execution"
    /\ program.keys = "loaded"
    /\ program.cleaned
    /\ out.op = "getattr"
    /\ out.err = "none"
    /\ Cardinality(obtained) = Cardinality(ProgramCircuits)

----------------------------------------------------------------------------
(* Claims on the stages of one compile call, under SpecOrder *)

\* the stages of a compile call that returns a Program
FullTrail ==
    [i \in 1..Len(Circuits) |-> <<"evaluate", Circuits[i]>>]
        \o << <<"lower", "">>, <<"build", "">> >>

\* a graph that was given its bounds and its bit-width by _evaluate
Finalized(g) == g.present /\ g.bounds # <<>> /\ g.width >= 1

\* C15: in one compile call every circuit is evaluated once, in the order of
\* declaration, with the inputset registered under its own name; lowering
\* comes once, after all the evaluations, with the mapping from every
\* declared name to that circuit's finalized graph; and the Program is
\* constructed after lowering, with the same mapping.
C15_CompileStagesInOrder ==
    [][/\ \A inputsets \in InputsetDicts, fault \in EvalFaults :
            EvaluateCircuit(inputsets, fault) =>
                /\ result'.name = Circuits[idx]
                /\ result'.supplied = inputsets[Circuits[idx]]
                /\ \A i \in 1..Len(trail) : trail[i][1] = "evaluate"
       /\ \A i \in 1..Len(trail') : i <= Len(FullTrail) /\ trail'[i] = FullTrail[i]
       /\ (pc = "lower" /\ pc' # "lower") =>
             /\ trail = SubSeq(FullTrail, 1, Len(Circuits))
             /\ DOMAIN result'.graphs = Range(Circuits)
             /\ \A n \in Range(Circuits) :
                   result'.graphs[n] = graph[n] /\ Finalized(graph[n])
       /\ (pc = "build" /\ pc' = "idle") =>
             /\ result.op = "lower"
             /\ result.err = "none"
             /\ result'.trail = FullTrail
             /\ result'.graphs = result.graphs
      ]_vars

C15_Witness ==
    /\ result.op = "compile"
    /\ result.err = "none"
    /\ result.trail = FullTrail
    /\ Len(inputset["inc"]) = 1
    /\ Len(inputset["add"]) = 1
    /\ \A n \in Names : Finalized(result.graphs[n])

----------------------------------------------------------------------------
(* Claims on concurrent compile calls, under SpecThreads *)

\* the threads that hold the lowering context of the shared
\* CompilationContext, or construct the Program and its Server with it
UsingContext == { t \in Threads : thread[t] \in {"lower", "build"} }

\* C18: when compile is called concurrently on one ProgramCompiler, at most
\* one call at a time uses the shared CompilationContext (the lowering
\* context it gave, the lowering, the construction of the Program).
C18_ContextAccessSerialized == Cardinality(UsingContext) <= 1

----------------------------------------------------------------------------
(* Claims on the reference function round, under SpecRound *)

\* C26: on an unsigned val of p_start bits and 2 <= p_end < p_start, round
\* gives the floor of (val + 2^(d-1)) / 2^d with d = p_start - p_end: val
\* shifted right by d, plus one when bit d-1 of val is set.
C26_RoundIsHalfUp ==
    (rounding.done /\ ~rounding.signed) =>
        LET d == rounding.p_start - rounding.p_end
            val == rounding.val
            bit == (val \div Pow2(d - 1)) % 2
        IN  /\ rounding.output = (val + Pow2(d - 1)) \div Pow2(d)
            /\ rounding.output = (val \div Pow2(d)) + bit

\* a val whose bit d-1 is set and one whose bit is not
C26_Witness ==
    /\ rounding.done
    /\ ~rounding.signed
    /\ rounding.p_start = 5
    /\ rounding.p_end = 3
    /\ rounding.val = 22
    /\ rounding.output = 6

\* C27: the output round computes for a value the generator can draw lies in
\* the output type of p_end bits, unsigned or signed as the input is.
C27_ExpectedOutputFitsType ==
    (rounding.done /\ rounding.val \in Drawn(rounding.p_start, rounding.signed)) =>
        rounding.output \in TypeValues(rounding.p_end, rounding.signed)

----------------------------------------------------------------------------
(* Claims on the evaluations of one CircuitDef, under SpecEval *)

\* C11: two successful evaluations in a row of the same CircuitDef with the
\* same inputset and the same configuration leave the same bounds, signedness
\* and bit-width on the graph, although the second appends the samples of the
\* inputset to the accumulated inputset once more.
C11_RecompilationKeepsWidths ==
    [][( /\ result.op = "evaluate" /\ result.err = "none"
         /\ result'.op = "evaluate" /\ result'.err = "none"
         /\ result'.name = result.name
         /\ result'.supplied = result.supplied
         /\ result'.cfgArg = result.cfgArg )
       => /\ graph'[result.name].bounds = graph[result.name].bounds
          /\ graph'[result.name].signed = graph[result.name].signed
          /\ graph'[result.name].width = graph[result.name].width
          /\ graph'[result.name].bounds # <<>>
          /\ inputset'[result.name] = inputset[result.name] \o result.supplied.samples
      ]_vars

C11_Witness ==
    /\ result.op = "evaluate"
    /\ result.err = "none"
    /\ result.supplied.samples # <<>>
    /\ inputset[result.name] = result.supplied.samples \o result.supplied.samples
    /\ graph[result.name].width >= 2

C20_EvaluateStepsInOrder ==
    [][(result'.op = "evaluate" /\ result'.err = "none") =>
        LET name == result'.name
            cfg == result'.cfgArg.cfg
            n == Len(inputset'[name])
            expected ==
                (IF result'.supplied.kind = "list"
                 THEN << <<"extend", Len(result'.supplied.samples)>> >> ELSE <<>>)
                \o (IF cfg.auto_adjust_rounders THEN << <<"round", n>> >> ELSE <<>>)
                \o (IF cfg.auto_adjust_truncators THEN << <<"truncate", n>> >> ELSE <<>>)
                \o (IF graph[name].present THEN <<>>
                     ELSE << <<"trace", 1>>, <<"fuse", 1>> >>)
                \o << <<"measure", n>>, <<"update", n>>, <<"final", n>> >>
        IN  /\ result'.log = expected
            /\ graph'[name].present
            /\ graph'[name].fused
            /\ graph'[name].bounds # <<>>
      ]_vars

C20_Witness ==
    /\ result.op = "evaluate"
    /\ result.err = "none"
    /\ Len(result.log) = 8
    /\ result.log[2] = <<"round", 2>>
    /\ result.log[3] = <<"truncate", 2>>

====
